---- MODULE Spec2Model ----
(***************************************************************************)
(* A model of main.py, the FastAPI backend that answers /quote, /chart and *)
(* /fundamentals by asking Alpha Vantage, yfinance and Stooq in turn, with *)
(* a process-wide 60 second cache in front of the Alpha Vantage calls.     *)
(*                                                                         *)
(* Python values are modelled as follows.  A float-or-None is a record     *)
(* [none, n, d]: None, or the rational n/d in lowest terms with d > 0.     *)
(* A str is a sequence of one-character strings.  A list is a record       *)
(* [items |-> <sequence>].  A tuple or dict is a record.  A value read     *)
(* from an upstream JSON or CSV payload is a token [k, n]: the key is      *)
(* absent, or its value is "", a non-numeric text, or the numeral n.       *)
(* A Python call is a record with a field `raised` that tells whether an   *)
(* exception left it.                                                      *)
(***************************************************************************)
EXTENDS Integers, Sequences, FiniteSets, TLC

VARIABLES
    ALPHA_KEY,  \* main.py:16, TRUE iff ALPHAVANTAGE_KEY is a non-empty string
    endpoint,   \* what this run exercises: one endpoint, the cache functions, or
                \* the arithmetic of /fundamentals on given adapter results
    _cache,     \* main.py:21, key -> [val, ts]
    now,        \* the value time.time() returns
    pc,         \* "idle", or "quote" while /quote is inside its loop
    syms,       \* /quote: the tickers still to be resolved (main.py:199,201)
    out,        \* /quote: the records appended so far (main.py:200,217)
    errors,     \* /quote: the error entries appended so far (main.py:200,215)
    resp,       \* the last response sent, or the value the last call returned
    req,        \* the request or call being served, or served last
    log,        \* the cache and network events of the last step, in order
    asked,      \* the adapters the last step called: for each its upstream answer
                \* and what it returned
    threads     \* request threads inside cache_get or cache_set: for each its
                \* position, its locals, and what its last pop removed and when

vars == <<ALPHA_KEY, endpoint, _cache, now, pc, syms, out, errors, resp, req, log, asked,
          threads>>

(***************************************************************************)
(* Bounds of the model.                                                    *)
(***************************************************************************)
MaxNow == 61
MaxTicker == 5

(***************************************************************************)
(* Numbers.                                                                *)
(***************************************************************************)
None == [none |-> TRUE, n |-> 0, d |-> 1]

Abs(i) == IF i < 0 THEN -i ELSE i

RECURSIVE Gcd(_, _)
Gcd(a, b) == IF b = 0 THEN a ELSE Gcd(b, a % b)

\* The float n/d (d # 0).
Frac(n, d) ==
    LET g == Gcd(Abs(n), Abs(d))
        s == IF d < 0 THEN -1 ELSE 1
    IN  [none |-> FALSE, n |-> (s * n) \div g, d |-> (s * d) \div g]

Num(i) == [none |-> FALSE, n |-> i, d |-> 1]

FAdd(x, y) == Frac(x.n * y.d + y.n * x.d, x.d * y.d)
\* The difference the other way round.
FSubFrom(x, y) == Frac(y.n * x.d - x.n * y.d, x.d * y.d)
FSub(x, y) == Frac(x.n * y.d - y.n * x.d, x.d * y.d)
FMul(x, y) == Frac(x.n * y.n, x.d * y.d)
FDiv(x, y) == Frac(x.n * y.d, x.d * y.n)

\* Python truthiness of a float-or-None: None and 0.0 are falsy.
Truthy(x) == ~x.none /\ x.n # 0
\* Python's `a or b`.
Or(a, b) == IF Truthy(a) THEN a ELSE b

(***************************************************************************)
(* Payload tokens and their coercion.                                      *)
(***************************************************************************)
Absent == [k |-> "absent", n |-> 0]
Empty  == [k |-> "empty", n |-> 0]
Text   == [k |-> "text", n |-> 0]      \* "None", "-", any other non-numeral
ND     == [k |-> "nd", n |-> 0]        \* Stooq's "N/D"
Numeral(i) == [k |-> "num", n |-> i]

\* float(x): raises on None, "" and on a text that is no numeral.
float(tok) ==
    IF tok.k = "num" THEN [raised |-> FALSE, val |-> Num(tok.n)]
    ELSE [raised |-> TRUE, val |-> None]

(***************************************************************************)
(* Strings.                                                                *)
(***************************************************************************)
\* The letters of the model's strings.
Letters == { <<"A", "a">>, <<"B", "b">>, <<"O", "o">>, <<"S", "s">>, <<"W", "w">> }
LowerOf == [c \in {l[1] : l \in Letters} |-> (CHOOSE l \in Letters : l[1] = c)[2]]
UpperOf == [c \in {l[2] : l \in Letters} |-> (CHOOSE l \in Letters : l[2] = c)[1]]

upper(s) == [i \in 1..Len(s) |-> IF s[i] \in DOMAIN UpperOf THEN UpperOf[s[i]] ELSE s[i]]
lower(s) == [i \in 1..Len(s) |-> IF s[i] \in DOMAIN LowerOf THEN LowerOf[s[i]] ELSE s[i]]

RECURSIVE lstrip(_)
lstrip(s) == IF s # <<>> /\ Head(s) = " " THEN lstrip(Tail(s)) ELSE s

RECURSIVE rstrip(_)
rstrip(s) == IF s # <<>> /\ s[Len(s)] = " " THEN rstrip(SubSeq(s, 1, Len(s) - 1)) ELSE s

strip(s) == rstrip(lstrip(s))

StartsWith(s, p) == Len(p) <= Len(s) /\ SubSeq(s, 1, Len(p)) = p

\* str.replace: every non-overlapping occurrence of old, left to right.
RECURSIVE replace(_, _, _)
replace(s, old, new) ==
    IF s = <<>> THEN <<>>
    ELSE IF StartsWith(s, old)
         THEN new \o replace(SubSeq(s, Len(old) + 1, Len(s)), old, new)
         ELSE <<Head(s)>> \o replace(Tail(s), old, new)

\* str.split(sep) for a one-character sep: always at least one piece.
RECURSIVE split(_, _)
split(s, sep) ==
    IF \E i \in 1..Len(s) : s[i] = sep
    THEN LET i == CHOOSE j \in 1..Len(s) : s[j] = sep /\ \A h \in 1..(j - 1) : s[h] # sep
         IN  <<SubSeq(s, 1, i - 1)>> \o split(SubSeq(s, i + 1, Len(s)), sep)
    ELSE <<s>>

\* The pieces stripped, with the blank ones kept.
SelectAll(ps) == [i \in 1..Len(ps) |-> strip(ps[i])]

\* main.py:199, [s.strip() for s in ... if s.strip()]
RECURSIVE SelectNonBlank(_)
SelectNonBlank(ps) ==
    IF ps = <<>> THEN <<>>
    ELSE IF strip(Head(ps)) # <<>>
         THEN <<strip(Head(ps))>> \o SelectNonBlank(Tail(ps))
         ELSE SelectNonBlank(Tail(ps))

to_alpha_symbol(sym) == replace(upper(strip(sym)), <<".", "S", "A">>, <<>>) \o <<".", "S", "A", "O">>

stooq_symbol(sym) == lower(strip(sym))

(***************************************************************************)
(* The cache.                                                              *)
(***************************************************************************)
CACHE_TTL == 60

\* cache_get with an entry expiring as soon as its age reaches CACHE_TTL.
cache_get_early(cache, k, t) ==
    IF k \notin DOMAIN cache THEN [ret |-> None, cache |-> cache]
    ELSE IF t - cache[k].ts >= CACHE_TTL
         THEN [ret |-> None, cache |-> [j \in DOMAIN cache \ {k} |-> cache[j]]]
         ELSE [ret |-> cache[k].val, cache |-> cache]

\* cache_get without the pop of an expired entry.
cache_get_keep(cache, k, t) ==
    IF k \notin DOMAIN cache THEN [ret |-> None, cache |-> cache]
    ELSE IF t - cache[k].ts > CACHE_TTL
         THEN [ret |-> None, cache |-> cache]
         ELSE [ret |-> cache[k].val, cache |-> cache]

\* main.py:23-30.  cache_get returns a value and may pop the entry:
\* [ret, cache].
cache_get(cache, k, t) ==
    IF k \notin DOMAIN cache THEN [ret |-> None, cache |-> cache]
    ELSE IF t - cache[k].ts > CACHE_TTL
         THEN [ret |-> None, cache |-> [j \in DOMAIN cache \ {k} |-> cache[j]]]
         ELSE [ret |-> cache[k].val, cache |-> cache]

cache_set(cache, k, val, t) ==
    [j \in DOMAIN cache \cup {k} |-> IF j = k THEN [val |-> val, ts |-> t] ELSE cache[j]]

(***************************************************************************)
(* Events of a step, for the log: an adapter is entered ("call", with the   *)
(* ticker), the cache is read ("get") or written ("set"), a network call   *)
(* is made ("http"), each with the translated symbol.                      *)
(***************************************************************************)
Ev(ev, fn, arg) == [ev |-> ev, fn |-> fn, arg |-> arg]

\* What a Python call hands back: an exception, or a value with the cache
\* as the call left it; either way the events it caused.
Return(val, cache, evs) == [raised |-> FALSE, val |-> val, cache |-> cache, log |-> evs]
\* The same call left by an exception instead.
Raise(r) == [r EXCEPT !.raised = TRUE]

(***************************************************************************)
(* Quote adapters.  A quote is the tuple (price, shares, mcap).            *)
(***************************************************************************)
Quote3(p, s, m) == [price |-> p, shares |-> s, mcap |-> m]
NoQuote == Quote3(None, None, None)

\* The HTTP exchange of requests.get(...); r.raise_for_status(); r.json():
\* it raises on a timeout, on a non-2xx status and on a body that is no JSON.
HttpRaises(up) == up.kind \in {"timeout", "status", "badjson"}

\* main.py:57-61, the body of alpha_quote's try block.
alpha_quote_fetch(up) ==
    IF HttpRaises(up) THEN [raised |-> TRUE, val |-> NoQuote]
    ELSE LET price == IF up.gq THEN up.price ELSE Absent
         IN  IF price.k \in {"absent", "empty"}
             THEN [raised |-> FALSE, val |-> Quote3(None, None, None)]
             ELSE LET f == float(price)
                  IN  [raised |-> f.raised, val |-> Quote3(f.val, None, None)]

\* The adapter going upstream whatever the cache gave.
alpha_quote_refetch(sym, a, c, f, t) ==
    IF f.raised
    THEN Return(NoQuote, c.cache,
                <<Ev("call", "alpha_quote", sym), Ev("get", "alpha_quote", a),
                  Ev("http", "alpha_quote", a)>>)
    ELSE Return(f.val, cache_set(c.cache, <<"alpha_quote", a>>, f.val, t),
                <<Ev("call", "alpha_quote", sym), Ev("get", "alpha_quote", a),
                  Ev("http", "alpha_quote", a), Ev("set", "alpha_quote", a)>>)

\* From the cache lookup on: a is the translated symbol, c what cache_get
\* gave, f what the try block gave.
alpha_quote_cached(sym, a, c, f, t) ==
    IF c.ret # None
    THEN Return(c.ret, c.cache, <<Ev("call", "alpha_quote", sym), Ev("get", "alpha_quote", a)>>)
    ELSE IF f.raised
         THEN Return(NoQuote, c.cache,
                     <<Ev("call", "alpha_quote", sym), Ev("get", "alpha_quote", a),
                       Ev("http", "alpha_quote", a)>>)
         ELSE Return(f.val, cache_set(c.cache, <<"alpha_quote", a>>, f.val, t),
                     <<Ev("call", "alpha_quote", sym), Ev("get", "alpha_quote", a),
                       Ev("http", "alpha_quote", a), Ev("set", "alpha_quote", a)>>)

alpha_quote(sym, up, cache, t) ==
    IF ~ALPHA_KEY THEN Return(NoQuote, cache, <<Ev("call", "alpha_quote", sym)>>)
    ELSE alpha_quote_cached(sym, to_alpha_symbol(sym),
             cache_get(cache, <<"alpha_quote", to_alpha_symbol(sym)>>, t), alpha_quote_fetch(up), t)

\* main.py:86-102, the body of yf_quote's try block.
yf_quote_fetch(up) ==
    IF up.kind = "raise" THEN [raised |-> TRUE, val |-> NoQuote]
    ELSE LET price0 == Or(up.fi.last_price, up.fi.lastPrice)
             useInfo == price0 = None /\ ~up.infoRaises
             price  == IF useInfo
                       THEN Or(up.info.regularMarketPrice, up.info.previousClose)
                       ELSE price0
             shares == IF useInfo
                       THEN Or(up.fi.shares, up.info.sharesOutstanding)
                       ELSE up.fi.shares
             mcap   == IF useInfo
                       THEN Or(up.fi.market_cap, up.info.marketCap)
                       ELSE up.fi.market_cap
         IN  [raised |-> FALSE, val |-> Quote3(price, shares, mcap)]

yf_quote(sym, up, cache) ==
    LET f == yf_quote_fetch(up)
    IN  Return(IF f.raised THEN NoQuote ELSE f.val, cache,
               <<Ev("call", "yf_quote", sym), Ev("http", "yf_quote", sym)>>)

\* main.py:109-114, the body of stooq_quote's try block.
stooq_quote_fetch(up) ==
    IF up.kind \in {"timeout", "status"} THEN [raised |-> TRUE, val |-> NoQuote]
    ELSE IF ~up.rows THEN [raised |-> FALSE, val |-> NoQuote]
    ELSE IF up.c.k \in {"absent", "empty", "nd"}
         THEN [raised |-> FALSE, val |-> Quote3(None, None, None)]
         ELSE LET f == float(up.c)
              IN  [raised |-> f.raised, val |-> Quote3(f.val, None, None)]

\* stooq_quote without its except clause.
stooq_quote_unguarded(sym, up, cache) ==
    IF stooq_quote_fetch(up).raised
    THEN Raise(Return(NoQuote, cache,
                      <<Ev("call", "stooq_quote", sym),
                        Ev("http", "stooq_quote", stooq_symbol(sym))>>))
    ELSE Return(stooq_quote_fetch(up).val, cache,
                <<Ev("call", "stooq_quote", sym),
                  Ev("http", "stooq_quote", stooq_symbol(sym))>>)

stooq_quote(sym, up, cache) ==
    LET f == stooq_quote_fetch(up)
    IN  Return(IF f.raised THEN NoQuote ELSE f.val, cache,
               <<Ev("call", "stooq_quote", sym), Ev("http", "stooq_quote", stooq_symbol(sym))>>)

(***************************************************************************)
(* Chart adapters.  A series is a list of closes, oldest first.            *)
(***************************************************************************)
List(items) == [items |-> items]
NoSeries == List(<<>>)

\* sorted(ts.items()): the rows of the payload by ascending date.
RECURSIVE sorted(_)
sorted(rows) ==
    IF rows = <<>> THEN <<>>
    ELSE LET i == CHOOSE j \in 1..Len(rows) : \A h \in 1..Len(rows) : rows[j].date <= rows[h].date
         IN  <<rows[i]>> \o sorted(SubSeq(rows, 1, i - 1) \o SubSeq(rows, i + 1, Len(rows)))

\* [float(v["4. close"]) for ...]: raises on a row without the key and on a
\* close that is no numeral.
RECURSIVE floats(_)
floats(rows) ==
    IF rows = <<>> THEN [raised |-> FALSE, val |-> <<>>]
    ELSE LET f == float(Head(rows).close)
             r == floats(Tail(rows))
         IN  [raised |-> f.raised \/ r.raised,
              val |-> IF f.raised \/ r.raised THEN <<>> ELSE <<f.val.n>> \o r.val]

\* main.py:76-78, the body of alpha_chart's try block.
alpha_chart_fetch(up) ==
    IF HttpRaises(up) THEN [raised |-> TRUE, val |-> NoSeries]
    ELSE LET ts == IF up.ts THEN up.rows ELSE <<>>
             closes == floats(sorted(ts))
         IN  [raised |-> closes.raised, val |-> List(closes.val)]

\* From the cache lookup on: a is the translated symbol, c what cache_get
\* gave, f what the try block gave.
alpha_chart_cached(sym, a, c, f, t) ==
    IF c.ret # None
    THEN Return(c.ret, c.cache, <<Ev("call", "alpha_chart", sym), Ev("get", "alpha_chart", a)>>)
    ELSE IF f.raised
         THEN Return(NoSeries, c.cache,
                     <<Ev("call", "alpha_chart", sym), Ev("get", "alpha_chart", a),
                       Ev("http", "alpha_chart", a)>>)
         ELSE Return(f.val, cache_set(c.cache, <<"alpha_chart", a>>, f.val, t),
                     <<Ev("call", "alpha_chart", sym), Ev("get", "alpha_chart", a),
                       Ev("http", "alpha_chart", a), Ev("set", "alpha_chart", a)>>)

\* alpha_chart without the test of the key.
alpha_chart_keyless(sym, up, cache, t) ==
    alpha_chart_cached(sym, to_alpha_symbol(sym),
        cache_get(cache, <<"alpha_chart", to_alpha_symbol(sym)>>, t), alpha_chart_fetch(up), t)

alpha_chart(sym, up, cache, t) ==
    IF ~ALPHA_KEY THEN Return(NoSeries, cache, <<Ev("call", "alpha_chart", sym)>>)
    ELSE alpha_chart_cached(sym, to_alpha_symbol(sym),
             cache_get(cache, <<"alpha_chart", to_alpha_symbol(sym)>>, t), alpha_chart_fetch(up), t)

\* main.py:124-128, the loop of stooq_chart: a row whose Close is missing,
\* empty, "N/D" or no numeral is skipped.
RECURSIVE stooq_closes(_)
stooq_closes(rows) ==
    IF rows = <<>> THEN <<>>
    ELSE IF Head(rows).k = "num" THEN <<Head(rows).n>> \o stooq_closes(Tail(rows))
    ELSE stooq_closes(Tail(rows))

\* main.py:121-129, the body of stooq_chart's try block.
stooq_chart_fetch(up) ==
    IF up.kind \in {"timeout", "status"} THEN [raised |-> TRUE, val |-> NoSeries]
    ELSE [raised |-> FALSE, val |-> List(stooq_closes(up.rows))]

stooq_chart(sym, interval, up, cache) ==
    LET f == stooq_chart_fetch(up)
    IN  Return(IF f.raised THEN NoSeries ELSE f.val, cache,
               <<Ev("call", "stooq_chart", sym),
                 Ev("http", "stooq_chart", stooq_symbol(sym) \o <<"&">> \o interval)>>)

(***************************************************************************)
(* Fundamentals adapters.  A dict is a function from its keys; d.get(k) of *)
(* a missing key is None.                                                  *)
(***************************************************************************)
EmptyDict == [k \in {} |-> None]
get(d, k) == IF k \in DOMAIN d THEN d[k] ELSE None

\* main.py:146-148 and 175-177, the helper f: float(x), or None when that raises.
f(tok) == IF float(tok).raised THEN None ELSE float(tok).val

\* Python's `a or b` on two payload values: None and "" are falsy.
TokOr(a, b) == IF a.k \in {"absent", "empty"} THEN b ELSE a

\* main.py:143-158, the body of alpha_overview's try block.  The numerals of
\* the model are whole, so int(float(x)) keeps their value.
alpha_overview_fetch(up) ==
    IF HttpRaises(up) THEN [raised |-> TRUE, val |-> EmptyDict]
    ELSE LET js == up.js
             so == js.SharesOutstanding
         IN  IF so.k \notin {"absent", "empty"} /\ float(so).raised
             THEN [raised |-> TRUE, val |-> EmptyDict]
             ELSE [raised |-> FALSE,
                   val |-> [MarketCapitalization |-> f(js.MarketCapitalization),
                            EBITDA |-> f(js.EBITDA),
                            DilutedEPSTTM |-> f(js.DilutedEPSTTM),
                            BookValue |-> f(js.BookValue),
                            SharesOutstanding |->
                                IF so.k \in {"absent", "empty"} THEN None ELSE float(so).val,
                            PERatio |-> Or(f(js.PERatio), f(js.TrailingPE)),
                            PriceToBookRatio |-> f(js.PriceToBookRatio),
                            EVToEBITDA |-> f(js.EVToEBITDA)]]

\* From the cache lookup on: a is the translated symbol, c what cache_get
\* gave, r what the try block gave.
alpha_overview_cached(sym, a, c, r, t) ==
    IF c.ret # None
    THEN Return(c.ret, c.cache, <<Ev("call", "alpha_overview", sym), Ev("get", "alpha_overview", a)>>)
    ELSE IF r.raised
         THEN Return(EmptyDict, c.cache,
                     <<Ev("call", "alpha_overview", sym), Ev("get", "alpha_overview", a),
                       Ev("http", "alpha_overview", a)>>)
         ELSE Return(r.val, cache_set(c.cache, <<"alpha_overview", a>>, r.val, t),
                     <<Ev("call", "alpha_overview", sym), Ev("get", "alpha_overview", a),
                       Ev("http", "alpha_overview", a), Ev("set", "alpha_overview", a)>>)

alpha_overview(sym, up, cache, t) ==
    IF ~ALPHA_KEY THEN Return(EmptyDict, cache, <<Ev("call", "alpha_overview", sym)>>)
    ELSE alpha_overview_cached(sym, to_alpha_symbol(sym),
             cache_get(cache, <<"alpha_overview", to_alpha_symbol(sym)>>, t), alpha_overview_fetch(up), t)

NoBalance == [TotalDebt |-> None, Cash |-> None]

\* main.py:172-185, the body of alpha_balance_latest's try block: the first
\* quarterly report, or with none the first annual one.
alpha_balance_fetch(up) ==
    IF HttpRaises(up) THEN [raised |-> TRUE, val |-> NoBalance]
    ELSE LET rows == IF up.quarterly # <<>> THEN up.quarterly ELSE up.annual
             last == rows[1]
         IN  IF rows # <<>>
             THEN [raised |-> FALSE,
                   val |-> [TotalDebt |-> f(last.totalDebt),
                            Cash |-> f(TokOr(last.cashAndCashEquivalentsAtCarryingValue,
                                             last.cashAndCashEquivalents))]]
             ELSE [raised |-> FALSE, val |-> [TotalDebt |-> None, Cash |-> None]]

\* From the cache lookup on: a is the translated symbol, c what cache_get
\* gave, r what the try block gave.
alpha_balance_latest_cached(sym, a, c, r, t) ==
    IF c.ret # None
    THEN Return(c.ret, c.cache, <<Ev("call", "alpha_balance", sym), Ev("get", "alpha_balance", a)>>)
    ELSE IF r.raised
         THEN Return(NoBalance, c.cache,
                     <<Ev("call", "alpha_balance", sym), Ev("get", "alpha_balance", a),
                       Ev("http", "alpha_balance", a)>>)
         ELSE Return(r.val, cache_set(c.cache, <<"alpha_balance", a>>, r.val, t),
                     <<Ev("call", "alpha_balance", sym), Ev("get", "alpha_balance", a),
                       Ev("http", "alpha_balance", a), Ev("set", "alpha_balance", a)>>)

alpha_balance_latest(sym, up, cache, t) ==
    IF ~ALPHA_KEY THEN Return(EmptyDict, cache, <<Ev("call", "alpha_balance", sym)>>)
    ELSE alpha_balance_latest_cached(sym, to_alpha_symbol(sym),
             cache_get(cache, <<"alpha_balance", to_alpha_symbol(sym)>>, t), alpha_balance_fetch(up), t)

\* main.py:190-193
price_of(q) == [raised |-> q.raised, val |-> q.val.price, cache |-> q.cache, log |-> q.log]

alpha_price(sym, up, cache, t) == price_of(alpha_quote(sym, up, cache, t))

\* main.py:262-304, what /fundamentals makes of the three adapters' results.
Positive(x) == x.n > 0

fundamentals_body(sym, ov, bal, price) ==
    LET shares == get(ov, "SharesOutstanding")
        marketCap == get(ov, "MarketCapitalization")
        ebitda == get(ov, "EBITDA")
        eps == get(ov, "DilutedEPSTTM")
        bvps == get(ov, "BookValue")
        pe_av == get(ov, "PERatio")
        pb_av == get(ov, "PriceToBookRatio")
        ev_ebitda_av == get(ov, "EVToEBITDA")
        totalDebt == get(bal, "TotalDebt")
        cash == get(bal, "Cash")
        netDebt == IF totalDebt # None /\ cash # None THEN FSub(totalDebt, cash) ELSE None
        ev == IF marketCap # None /\ netDebt # None THEN FAdd(marketCap, netDebt) ELSE None
        evEbitda_calc == IF ev # None /\ Truthy(ebitda) /\ Positive(ebitda)
                         THEN FDiv(ev, ebitda) ELSE None
        pe_calc == IF price # None /\ Truthy(eps) /\ eps.n # 0
                   THEN FDiv(price, eps) ELSE None
        equityBV == IF bvps # None /\ shares # None THEN FMul(bvps, shares) ELSE None
        pb_calc == IF marketCap # None /\ Truthy(equityBV) /\ Positive(equityBV)
                   THEN FDiv(marketCap, equityBV) ELSE None
    IN  [symbol |-> sym, source |-> "alpha", price |-> price, sharesOutstanding |-> shares,
         marketCap |-> marketCap, totalDebt |-> totalDebt, cash |-> cash,
         netDebt |-> netDebt, ev |-> ev, ebitdaTTM |-> ebitda, epsTTM |-> eps,
         bookValuePerShare |-> bvps, equityBookValue |-> equityBV,
         multiples |-> [evEbitda |-> Or(evEbitda_calc, ev_ebitda_av),
                        pe |-> Or(pe_calc, pe_av),
                        pb |-> Or(pb_calc, pb_av)]]

(***************************************************************************)
(* What the upstream services may answer.                                  *)
(***************************************************************************)
HttpFailures == {"timeout", "status", "badjson"}

\* GLOBAL_QUOTE: gq tells whether the body holds "Global Quote" (a rate-limit
\* notice does not); price is its "05. price".
AlphaQuoteOk == [kind |-> "ok", gq |-> TRUE, price |-> Numeral(30)]
AlphaQuoteUps ==
    [kind : HttpFailures, gq : {FALSE}, price : {Absent}]
    \cup [kind : {"ok"}, gq : {FALSE}, price : {Absent}]
    \cup [kind : {"ok"}, gq : {TRUE}, price : {Absent, Text}]
    \cup {AlphaQuoteOk}

NoFastInfo == [last_price |-> None, lastPrice |-> None, shares |-> None, market_cap |-> None]
NoInfo == [regularMarketPrice |-> None, previousClose |-> None,
           sharesOutstanding |-> None, marketCap |-> None]

\* yfinance: fast_info and, when it holds no price, info (which may raise).
YfQuoteOk ==
    [kind |-> "ok", infoRaises |-> FALSE, info |-> NoInfo,
     fi |-> [last_price |-> Num(31), lastPrice |-> None, shares |-> Num(5),
             market_cap |-> Num(155)]]
YfQuoteUps ==
    { YfQuoteOk,
      [kind |-> "raise", fi |-> NoFastInfo, infoRaises |-> FALSE, info |-> NoInfo],
      [kind |-> "ok", infoRaises |-> TRUE, info |-> NoInfo,
       fi |-> [last_price |-> None, lastPrice |-> None, shares |-> Num(5),
               market_cap |-> None]],
      [kind |-> "ok", infoRaises |-> FALSE, fi |-> NoFastInfo,
       info |-> [regularMarketPrice |-> Num(0), previousClose |-> Num(31),
                 sharesOutstanding |-> Num(5), marketCap |-> None]] }

\* Stooq's quote CSV: rows tells whether a data row follows the header, c is
\* its close column.
StooqQuoteOk == [kind |-> "ok", rows |-> TRUE, c |-> Numeral(0)]
StooqQuoteUps ==
    [kind : {"timeout", "status"}, rows : {FALSE}, c : {Absent}]
    \cup [kind : {"ok"}, rows : {FALSE}, c : {Absent}]
    \cup [kind : {"ok"}, rows : {TRUE}, c : {Absent, ND, Text}]
    \cup {StooqQuoteOk}

\* TIME_SERIES_DAILY_ADJUSTED: ts tells whether the body holds
\* "Time Series (Daily)"; rows are its entries in the order of the payload.
AlphaChartOk ==
    [kind |-> "ok", ts |-> TRUE,
     rows |-> <<[date |-> 2, close |-> Numeral(11)], [date |-> 1, close |-> Numeral(10)]>>]
AlphaChartUps ==
    [kind : HttpFailures, ts : {FALSE}, rows : {<<>>}]
    \cup [kind : {"ok"}, ts : {FALSE}, rows : {<<>>}]
    \cup [kind : {"ok"}, ts : {TRUE},
          rows : {<<[date |-> 1, close |-> Absent]>>, <<[date |-> 1, close |-> Text]>>}]
    \cup {AlphaChartOk}

\* yfinance's history(): it raises, or gives the closes left by dropna().
YfChartOk == [kind |-> "ok", closes |-> <<20, 21>>]
YfChartUps == {YfChartOk, [kind |-> "raise", closes |-> <<>>], [kind |-> "ok", closes |-> <<>>]}

\* Stooq's history CSV: rows are the Close column of its data rows.
StooqChartOk == [kind |-> "ok", rows |-> <<Numeral(30), Text, Numeral(31)>>]
StooqChartUps ==
    [kind : {"timeout", "status"}, rows : {<<>>}]
    \cup [kind : {"ok"}, rows : {<<>>, <<ND, Absent>>}]
    \cup {StooqChartOk}

\* OVERVIEW.
Overview(mc, ebitda, eps, bv, so, pe, tpe, pb, eve) ==
    [MarketCapitalization |-> mc, EBITDA |-> ebitda, DilutedEPSTTM |-> eps,
     BookValue |-> bv, SharesOutstanding |-> so, PERatio |-> pe, TrailingPE |-> tpe,
     PriceToBookRatio |-> pb, EVToEBITDA |-> eve]
NoOverview == Overview(Absent, Absent, Absent, Absent, Absent, Absent, Absent, Absent, Absent)
OverviewOk ==
    [kind |-> "ok",
     js |-> Overview(Numeral(12), Numeral(4), Numeral(2), Numeral(2), Numeral(3),
                     Text, Numeral(7), Numeral(5), Numeral(5))]
OverviewUps ==
    [kind : HttpFailures, js : {NoOverview}]
    \cup [kind : {"ok"},
          js : {NoOverview,
                Overview(Numeral(12), Text, Numeral(2), Numeral(2), Text,
                         Numeral(6), Absent, Numeral(5), Numeral(5))}]
    \cup {OverviewOk}

\* BALANCE_SHEET: the quarterly and the annual reports, latest first.
Report(debt, carry, cash) ==
    [totalDebt |-> debt, cashAndCashEquivalentsAtCarryingValue |-> carry,
     cashAndCashEquivalents |-> cash]
BalanceOk ==
    [kind |-> "ok", annual |-> <<Report(Numeral(9), Numeral(9), Absent)>>,
     quarterly |-> <<Report(Numeral(6), Empty, Numeral(2)),
                     Report(Numeral(8), Numeral(8), Absent)>>]
BalanceUps ==
    [kind : HttpFailures, quarterly : {<<>>}, annual : {<<>>}]
    \cup [kind : {"ok"}, quarterly : {<<>>},
          annual : {<<>>, <<Report(Text, Numeral(2), Absent)>>}]
    \cup {BalanceOk}

\* The answers to draw for an upstream call: every one when the code makes
\* the call, and a single one when it does not.
Answers(made, all, one) == IF made THEN all ELSE {one}

\* Whether an Alpha adapter goes to the network for this ticker.
Fetches(fn, sym, cache, t) ==
    ALPHA_KEY /\ cache_get(cache, <<fn, to_alpha_symbol(sym)>>, t).ret = None

(***************************************************************************)
(* /quote                                                                  *)
(***************************************************************************)
\* A few query strings: "A.SA", "a.sa, ,B", " A.SA ,A.SA", " ".
SymbolInputs ==
    { <<"A", ".", "S", "A">>,
      <<"a", ".", "s", "a", ",", " ", ",", "B">>,
      <<" ", "A", ".", "S", "A", " ", ",", "A", ".", "S", "A">>,
      <<" ">> }

\* What is kept of an adapter call: the adapter, the upstream answer it got
\* when it went to the network (NoCall when it did not), and what it returned.
NoCall == [kind |-> "nocall"]
Went(r) == \E i \in 1..Len(r.log) : r.log[i].ev = "http"
Asked(provider, r, up) ==
    [provider |-> provider, up |-> IF Went(r) THEN up ELSE NoCall, val |-> r.val]

\* The choice with stooq called whenever alpha gave no price, also after a
\* price from yfinance, so that the last provider with a price wins.
quote_choice_last(a, y, s) ==
    LET askY == a.val.price = None
        useY == askY /\ y.val.price # None
        askS == askY
        useS == askS /\ s.val.price # None
    IN  [askY |-> askY, askS |-> askS,
         q |-> IF useS THEN s.val ELSE IF useY THEN y.val ELSE a.val,
         source |-> IF useS THEN "stooq" ELSE IF useY THEN "yfinance" ELSE "alpha"]

\* The choice taking from stooq its price alone, the shares and the market
\* cap staying as the providers before left them.
quote_choice_price_only(a, y, s) ==
    LET askY == a.val.price = None
        useY == askY /\ y.val.price # None
        q1 == IF askY THEN y.val ELSE a.val
        askS == q1.price = None
        useS == askS /\ s.val.price # None
    IN  [askY |-> askY, askS |-> askS,
         q |-> IF useS THEN [q1 EXCEPT !.price = s.val.price] ELSE q1,
         source |-> IF useS THEN "stooq" ELSE IF useY THEN "yfinance" ELSE "alpha"]

\* main.py:203-212, the provider whose triple the record takes: resolved to
\* [q, source], with askY and askS telling whether yfinance and then stooq
\* are called.
quote_choice(a, y, s) ==
    LET askY == a.val.price = None
        useY == askY /\ y.val.price # None
        q1 == IF useY THEN y.val ELSE a.val
        askS == q1.price = None
        useS == askS /\ s.val.price # None
    IN  [askY |-> askY, askS |-> askS,
         q |-> IF useS THEN s.val ELSE q1,
         source |-> IF useS THEN "stooq" ELSE IF useY THEN "yfinance" ELSE "alpha"]

\* The error entry with the test of the price turned round.
quote_error_priced(t, price) ==
    IF price # None THEN <<[symbol |-> t, error |-> "no_data_all_sources"]>> ELSE <<>>

\* main.py:214-215, what the turn appends to errors.
quote_error(t, price) ==
    IF price = None THEN <<[symbol |-> t, error |-> "no_data_all_sources"]>> ELSE <<>>

\* The turn with yfinance asked a second time when it gave no price.
quote_record_retry(t, a, y, s, c, ua, uy, us) ==
    [raised |-> a.raised \/ (c.askY /\ y.raised) \/ (c.askS /\ s.raised),
     rec |-> [symbol |-> t, regularMarketPrice |-> c.q.price, marketCap |-> c.q.mcap,
              sharesOutstanding |-> c.q.shares, source |-> c.source],
     err |-> quote_error(t, c.q.price),
     cache |-> a.cache,
     log |-> a.log \o (IF c.askY THEN y.log ELSE <<>>)
                   \o (IF c.askY /\ y.val.price = None THEN y.log ELSE <<>>)
                   \o (IF c.askS THEN s.log ELSE <<>>),
     asked |-> <<Asked("alpha", a, ua)>>
               \o (IF c.askY THEN <<Asked("yfinance", y, uy)>> ELSE <<>>)
               \o (IF c.askS THEN <<Asked("stooq", s, us)>> ELSE <<>>)]

\* main.py:203-223, one turn of the loop for ticker t: the record and the
\* error entry it appends, the cache it leaves, and in `asked` each adapter
\* it called, in the order of the calls.
quote_record(t, a, y, s, c, ua, uy, us) ==
    [raised |-> a.raised \/ (c.askY /\ y.raised) \/ (c.askS /\ s.raised),
     rec |-> [symbol |-> t, regularMarketPrice |-> c.q.price, marketCap |-> c.q.mcap,
              sharesOutstanding |-> c.q.shares, source |-> c.source],
     err |-> quote_error(t, c.q.price),
     cache |-> a.cache,
     log |-> a.log \o (IF c.askY THEN y.log ELSE <<>>) \o (IF c.askS THEN s.log ELSE <<>>),
     asked |-> <<Asked("alpha", a, ua)>>
               \o (IF c.askY THEN <<Asked("yfinance", y, uy)>> ELSE <<>>)
               \o (IF c.askS THEN <<Asked("stooq", s, us)>> ELSE <<>>)]

quote_adapters(t, a, y, s, ua, uy, us) ==
    quote_record(t, a, y, s, quote_choice(a, y, s), ua, uy, us)

quote_one(t, ua, uy, us, cache, tnow) ==
    quote_adapters(t, alpha_quote(t, ua, cache, tnow), yf_quote(t, uy, cache),
                   stooq_quote(t, us, cache), ua, uy, us)

(***************************************************************************)
(* /chart                                                                  *)
(***************************************************************************)
ChartSymbols == { <<"A", ".", "S", "A">> }
Intervals == { <<"1", "d">>, <<"1", "W">>, <<"1", "m", "o">> }

\* main.py:241
stooq_int(interval) ==
    IF StartsWith(lower(interval), <<"1", "d">>) THEN <<"d">>
    ELSE IF StartsWith(lower(interval), <<"1", "w">>) THEN <<"w">>
    ELSE <<"m">>

\* yfinance's history without a try block around it.
yf_history_unguarded(symbol, up, cache) ==
    IF up.kind = "raise"
    THEN Raise(Return(NoSeries, cache,
                      <<Ev("call", "yf_history", symbol), Ev("http", "yf_history", symbol)>>))
    ELSE Return(List(up.closes), cache,
                <<Ev("call", "yf_history", symbol), Ev("http", "yf_history", symbol)>>)

\* main.py:233-239, yfinance's history inside /chart's own try block.
yf_history(symbol, up, cache) ==
    Return(IF up.kind = "raise" THEN NoSeries ELSE List(up.closes), cache,
           <<Ev("call", "yf_history", symbol), Ev("http", "yf_history", symbol)>>)

ChartOk(closes, source) ==
    [endpoint |-> "chart", status |-> 200, close |-> closes, source |-> source]
ChartNoData == [endpoint |-> "chart", status |-> 502, error |-> "no_data_all_sources"]

\* The answer with `is not None` in the place of the truth value of closes.
chart_choice_not_none(a, y, s) ==
    [askY |-> a.val = None, askS |-> a.val = None /\ y.val = None,
     resp |-> IF a.val # None THEN ChartOk(a.val, "alpha")
              ELSE IF y.val # None THEN ChartOk(y.val, "yfinance")
              ELSE IF s.val # None THEN ChartOk(s.val, "stooq")
              ELSE ChartNoData]

\* main.py:229-245, the answer: with askY and askS telling whether yfinance
\* and then stooq are called.
chart_choice(a, y, s) ==
    [askY |-> a.val.items = <<>>, askS |-> a.val.items = <<>> /\ y.val.items = <<>>,
     resp |-> IF a.val.items # <<>> THEN ChartOk(a.val, "alpha")
              ELSE IF y.val.items # <<>> THEN ChartOk(y.val, "yfinance")
              ELSE IF s.val.items # <<>> THEN ChartOk(s.val, "stooq")
              ELSE ChartNoData]

chart_response(a, y, s, c, ua, uy, us) ==
    [raised |-> a.raised \/ (c.askY /\ y.raised) \/ (c.askS /\ s.raised),
     resp |-> c.resp,
     cache |-> a.cache,
     log |-> a.log \o (IF c.askY THEN y.log ELSE <<>>) \o (IF c.askS THEN s.log ELSE <<>>),
     asked |-> <<Asked("alpha", a, ua)>>
               \o (IF c.askY THEN <<Asked("yfinance", y, uy)>> ELSE <<>>)
               \o (IF c.askS THEN <<Asked("stooq", s, us)>> ELSE <<>>)]

chart_adapters(a, y, s, ua, uy, us) ==
    chart_response(a, y, s, chart_choice(a, y, s), ua, uy, us)

chart(symbol, interval, ua, uy, us, cache, tnow) ==
    chart_adapters(alpha_chart(symbol, ua, cache, tnow), yf_history(symbol, uy, cache),
                   stooq_chart(symbol, stooq_int(interval), us, cache), ua, uy, us)

(***************************************************************************)
(* /fundamentals                                                           *)
(***************************************************************************)
FundTickers == { <<" ", "a", ".", "s", "a">> }

\* main.py:257-304
fundamentals_response(sym, ov, bal, price, uo, ub, uq) ==
    [raised |-> ov.raised \/ bal.raised \/ price.raised,
     resp |-> [endpoint |-> "fundamentals", status |-> 200,
               body |-> fundamentals_body(sym, ov.val, bal.val, price.val)],
     cache |-> price.cache,
     log |-> ov.log \o bal.log \o price.log,
     asked |-> <<Asked("alpha_overview", ov, uo), Asked("alpha_balance_latest", bal, ub),
                 Asked("alpha_price", price, uq)>>]

\* main.py:259-261 with sym, ov and then bal in hand.
fundamentals_price(sym, ov, bal, uo, ub, uq, tnow) ==
    fundamentals_response(sym, ov, bal, alpha_price(sym, uq, bal.cache, tnow), uo, ub, uq)

fundamentals_balance(sym, ov, uo, ub, uq, tnow) ==
    fundamentals_price(sym, ov, alpha_balance_latest(sym, ub, ov.cache, tnow), uo, ub, uq, tnow)

fundamentals_sym(sym, uo, ub, uq, cache, tnow) ==
    fundamentals_balance(sym, alpha_overview(sym, uo, cache, tnow), uo, ub, uq, tnow)

fundamentals(ticker, uo, ub, uq, cache, tnow) ==
    fundamentals_sym(upper(strip(ticker)), uo, ub, uq, cache, tnow)

(***************************************************************************)
(* The state machine.  A run serves one endpoint, or calls the cache       *)
(* functions directly, or applies the arithmetic of /fundamentals to       *)
(* adapter results drawn at the start: the endpoints meet only in _cache,  *)
(* whose keys carry the adapter's name, and the one adapter two endpoints  *)
(* share, alpha_quote, is called by both with the same keys.  A run of     *)
(* "threads" has request threads of the server's pool inside cache_get and *)
(* cache_set at once, one statement of main.py:23-33 per step.  A run of   *)
(* "translate" applies to_alpha_symbol to tickers of every shape.          *)
(***************************************************************************)
Endpoints == {"quote", "chart", "fundamentals", "combiner", "cache", "threads", "translate"}

NoResp == [endpoint |-> "none", status |-> 0]
NoReq == [op |-> "none", arg |-> <<>>]

\* Results the Alpha adapters can hand to main.py:262-304.
OvDict(mc, ebitda, eps, bv, so, pe, pb, eve) ==
    [MarketCapitalization |-> mc, EBITDA |-> ebitda, DilutedEPSTTM |-> eps,
     BookValue |-> bv, SharesOutstanding |-> so, PERatio |-> pe,
     PriceToBookRatio |-> pb, EVToEBITDA |-> eve]
BalDict(debt, cash) == [TotalDebt |-> debt, Cash |-> cash]

Combine(ov, bal, price) ==
    <<[provider |-> "alpha_overview", up |-> NoCall, val |-> ov],
      [provider |-> "alpha_balance_latest", up |-> NoCall, val |-> bal],
      [provider |-> "alpha_price", up |-> NoCall, val |-> price]>>

CombinerInputs ==
    { Combine(OvDict(mc, ebitda, Num(2), Num(2), Num(3), Num(5), Num(5), eve),
              BalDict(debt, cash), Num(10)) :
        mc \in {None, Num(0), Num(12)}, ebitda \in {None, Num(-4), Num(0), Num(4)},
        eve \in {None, Num(5)}, debt \in {None, Num(6)}, cash \in {None, Num(2), Num(6)} }
    \cup
    { Combine(OvDict(Num(12), Num(4), eps, Num(2), Num(3), pe, Num(5), Num(5)),
              BalDict(Num(6), Num(2)), price) :
        eps \in {None, Num(-2), Num(0), Num(2)}, pe \in {None, Num(5)},
        price \in {None, Num(0), Num(10)} }
    \cup
    { Combine(OvDict(mc, Num(4), Num(2), bv, so, Num(5), pb, Num(5)),
              BalDict(Num(6), Num(2)), Num(10)) :
        mc \in {None, Num(0), Num(12)}, bv \in {None, Num(-2), Num(0), Num(2)},
        so \in {None, Num(3)}, pb \in {None, Num(5)} }
    \cup
    { Combine(EmptyDict, bal, price) :
        bal \in {EmptyDict, NoBalance}, price \in {None, Num(10)} }

CacheKeys ==
    { <<"alpha_quote", <<"A", ".", "S", "A", "O">> >>,
      <<"alpha_chart", <<"A", ".", "S", "A", "O">> >> }
CacheVals == { None, NoQuote, Quote3(Num(30), None, None) }

\* The request threads with the key they share and the values they store,
\* and a thread that is in neither cache function.
Threads == {"t1", "t2"}
ThreadKeys == { <<"alpha_quote", <<"A", ".", "S", "A", "O">> >> }
ThreadVals == { NoQuote, Quote3(Num(30), None, None) }
IdleThread ==
    [pc |-> "idle", k |-> <<>>, val |-> None, v |-> None, ts |-> 0, ret |-> None,
     gone |-> None, at |-> 0]

Init ==
    /\ ALPHA_KEY \in BOOLEAN
    /\ endpoint \in Endpoints
    /\ _cache = EmptyDict
    /\ now = 0
    /\ pc = "idle"
    /\ syms = <<>>
    /\ out = <<>>
    /\ errors = <<>>
    /\ resp = NoResp
    /\ req = NoReq
    /\ log = <<>>
    /\ asked \in IF endpoint = "combiner" THEN CombinerInputs ELSE {<<>>}
    /\ threads = [t \in Threads |-> IdleThread]

\* time.time() moves on, also while a request is being served.
TickSteps == {CACHE_TTL, CACHE_TTL + 1}

Tick ==
    /\ endpoint \notin {"combiner", "translate"}
    /\ \E d \in TickSteps : now + d <= MaxNow /\ now' = now + d
    /\ UNCHANGED <<threads, ALPHA_KEY, endpoint, _cache, pc, syms, out, errors, resp, req, log, asked>>

\* main.py:199-200
QuoteCall ==
    /\ endpoint = "quote"
    /\ pc = "idle"
    /\ \E symbols \in SymbolInputs :
         /\ syms' = SelectNonBlank(split(symbols, ","))
         /\ req' = [op |-> "quote", arg |-> symbols]
    /\ pc' = "quote"
    /\ out' = <<>>
    /\ errors' = <<>>
    /\ resp' = NoResp
    /\ log' = <<>>
    /\ asked' = <<>>
    /\ UNCHANGED <<threads, ALPHA_KEY, endpoint, _cache, now>>

\* main.py:201-223, one turn of the loop.  An exception that leaves an
\* adapter ends the request with the framework's 500.
QuoteIter ==
    /\ pc = "quote"
    /\ syms # <<>>
    /\ \E ua \in Answers(Fetches("alpha_quote", Head(syms), _cache, now),
                         AlphaQuoteUps, AlphaQuoteOk) :
       \E uy \in Answers(alpha_quote(Head(syms), ua, _cache, now).val.price = None,
                         YfQuoteUps, YfQuoteOk) :
       \E us \in Answers(/\ alpha_quote(Head(syms), ua, _cache, now).val.price = None
                         /\ yf_quote(Head(syms), uy, _cache).val.price = None,
                         StooqQuoteUps, StooqQuoteOk) :
       \E q \in {quote_one(Head(syms), ua, uy, us, _cache, now)} :
             /\ _cache' = q.cache
             /\ log' = q.log
             /\ asked' = q.asked
             /\ IF q.raised
                THEN /\ pc' = "idle"
                     /\ resp' = [endpoint |-> "quote", status |-> 500]
                     /\ UNCHANGED <<syms, out, errors>>
                ELSE /\ out' = Append(out, q.rec)
                     /\ errors' = errors \o q.err
                     /\ syms' = Tail(syms)
                     /\ UNCHANGED <<pc, resp>>
    /\ UNCHANGED <<threads, ALPHA_KEY, endpoint, now, req>>

\* main.py:224
QuoteReturn ==
    /\ pc = "quote"
    /\ syms = <<>>
    /\ pc' = "idle"
    /\ resp' = [endpoint |-> "quote", status |-> 200, result |-> out, errors |-> errors]
    /\ UNCHANGED <<threads, ALPHA_KEY, endpoint, _cache, now, syms, out, errors, req, log, asked>>

\* main.py:226-245
Chart ==
    /\ endpoint = "chart"
    /\ \E symbol \in ChartSymbols, interval \in Intervals :
       \E ua \in Answers(Fetches("alpha_chart", symbol, _cache, now),
                         AlphaChartUps, AlphaChartOk) :
       \E uy \in Answers(alpha_chart(symbol, ua, _cache, now).val.items = <<>>,
                         YfChartUps, YfChartOk) :
       \E us \in Answers(/\ alpha_chart(symbol, ua, _cache, now).val.items = <<>>
                         /\ yf_history(symbol, uy, _cache).val.items = <<>>,
                         StooqChartUps, StooqChartOk) :
       \E c \in {chart(symbol, interval, ua, uy, us, _cache, now)} :
             /\ req' = [op |-> "chart", arg |-> symbol, interval |-> interval]
             /\ _cache' = c.cache
             /\ log' = c.log
             /\ asked' = c.asked
             /\ resp' = IF c.raised THEN [endpoint |-> "chart", status |-> 500] ELSE c.resp
    /\ UNCHANGED <<threads, ALPHA_KEY, endpoint, now, pc, syms, out, errors>>

\* main.py:247-304
Fundamentals ==
    /\ endpoint = "fundamentals"
    /\ \E ticker \in FundTickers :
       \E uo \in Answers(Fetches("alpha_overview", ticker, _cache, now),
                         OverviewUps, OverviewOk) :
       \E ub \in Answers(Fetches("alpha_balance", ticker, _cache, now),
                         BalanceUps, BalanceOk) :
       \E uq \in Answers(Fetches("alpha_quote", ticker, _cache, now),
                         AlphaQuoteUps, AlphaQuoteOk) :
       \E r \in {fundamentals(ticker, uo, ub, uq, _cache, now)} :
             /\ req' = [op |-> "fundamentals", arg |-> ticker]
             /\ _cache' = r.cache
             /\ log' = r.log
             /\ asked' = r.asked
             /\ resp' = IF r.raised THEN [endpoint |-> "fundamentals", status |-> 500]
                        ELSE r.resp
    /\ UNCHANGED <<threads, ALPHA_KEY, endpoint, now, pc, syms, out, errors>>

\* main.py:262-304 applied to the adapter results drawn in Init.
Combiner ==
    /\ endpoint = "combiner"
    /\ resp = NoResp
    /\ req' = [op |-> "combiner", arg |-> <<"A", ".", "S", "A">>]
    /\ resp' = [endpoint |-> "fundamentals", status |-> 200,
                body |-> fundamentals_body(<<"A", ".", "S", "A">>, asked[1].val,
                                           asked[2].val, asked[3].val)]
    /\ UNCHANGED <<threads, ALPHA_KEY, endpoint, _cache, now, pc, syms, out, errors, log, asked>>

\* main.py:23-30
CacheGet ==
    /\ endpoint = "cache"
    /\ \E k \in CacheKeys :
         /\ req' = [op |-> "cache_get", arg |-> k, val |-> None, at |-> now]
         /\ resp' = [endpoint |-> "cache", status |-> 0, had |-> k \in DOMAIN _cache,
                     ret |-> cache_get(_cache, k, now).ret]
         /\ _cache' = cache_get(_cache, k, now).cache
         /\ log' = <<Ev("get", k[1], k[2])>>
    /\ UNCHANGED <<threads, ALPHA_KEY, endpoint, now, pc, syms, out, errors, asked>>

\* main.py:32-33
CacheSet ==
    /\ endpoint = "cache"
    /\ \E k \in CacheKeys, v \in CacheVals :
         /\ req' = [op |-> "cache_set", arg |-> k, val |-> v, at |-> now]
         /\ resp' = [endpoint |-> "cache", status |-> 0, had |-> k \in DOMAIN _cache,
                     ret |-> None]
         /\ _cache' = cache_set(_cache, k, v, now)
         /\ log' = <<Ev("set", k[1], k[2])>>
    /\ UNCHANGED <<threads, ALPHA_KEY, endpoint, now, pc, syms, out, errors, asked>>

\* A thread enters cache_get(k).
GetCall(t) ==
    /\ endpoint = "threads"
    /\ threads[t].pc = "idle"
    /\ \E k \in ThreadKeys :
         threads' = [threads EXCEPT ![t] = [IdleThread EXCEPT !.pc = "get_read", !.k = k]]
    /\ UNCHANGED <<ALPHA_KEY, endpoint, _cache, now, pc, syms, out, errors, resp, req, log, asked>>

\* main.py:24, v = _cache.get(k)
GetRead(t) ==
    /\ endpoint = "threads"
    /\ threads[t].pc = "get_read"
    /\ threads' = [threads EXCEPT ![t].pc = "get_check",
                                  ![t].v = IF threads[t].k \in DOMAIN _cache
                                           THEN _cache[threads[t].k] ELSE None]
    /\ UNCHANGED <<ALPHA_KEY, endpoint, _cache, now, pc, syms, out, errors, resp, req, log, asked>>

\* main.py:25-27 and 30: the two tests, with time.time() read here.
GetCheck(t) ==
    /\ endpoint = "threads"
    /\ threads[t].pc = "get_check"
    /\ threads' = [threads EXCEPT ![t] =
           IF threads[t].v = None THEN IdleThread
           ELSE IF now - threads[t].v.ts > CACHE_TTL THEN [@ EXCEPT !.pc = "get_pop"]
           ELSE [IdleThread EXCEPT !.ret = threads[t].v.val]]
    /\ UNCHANGED <<ALPHA_KEY, endpoint, _cache, now, pc, syms, out, errors, resp, req, log, asked>>

\* main.py:28-29, _cache.pop(k, None); return None
GetPop(t) ==
    /\ endpoint = "threads"
    /\ threads[t].pc = "get_pop"
    /\ _cache' = [j \in DOMAIN _cache \ {threads[t].k} |-> _cache[j]]
    /\ threads' = [threads EXCEPT ![t].pc = "idle", ![t].ret = None, ![t].at = now,
                                  ![t].gone = IF threads[t].k \in DOMAIN _cache
                                              THEN _cache[threads[t].k] ELSE None]
    /\ UNCHANGED <<ALPHA_KEY, endpoint, now, pc, syms, out, errors, resp, req, log, asked>>

\* A thread enters cache_set(k, val).
SetCall(t) ==
    /\ endpoint = "threads"
    /\ threads[t].pc = "idle"
    /\ \E k \in ThreadKeys, val \in ThreadVals :
         threads' = [threads EXCEPT ![t] =
                        [IdleThread EXCEPT !.pc = "set_time", !.k = k, !.val = val]]
    /\ UNCHANGED <<ALPHA_KEY, endpoint, _cache, now, pc, syms, out, errors, resp, req, log, asked>>

\* main.py:33, the right-hand side (val, time.time())
SetTime(t) ==
    /\ endpoint = "threads"
    /\ threads[t].pc = "set_time"
    /\ threads' = [threads EXCEPT ![t].pc = "set_store", ![t].ts = now]
    /\ UNCHANGED <<ALPHA_KEY, endpoint, _cache, now, pc, syms, out, errors, resp, req, log, asked>>

\* main.py:33, the store _cache[k] = ...
SetStore(t) ==
    /\ endpoint = "threads"
    /\ threads[t].pc = "set_store"
    /\ _cache' = cache_set(_cache, threads[t].k, threads[t].val, threads[t].ts)
    /\ threads' = [threads EXCEPT ![t] = IdleThread]
    /\ UNCHANGED <<ALPHA_KEY, endpoint, now, pc, syms, out, errors, resp, req, log, asked>>

\* The tickers to_alpha_symbol is given: every string of at most MaxTicker
\* of these characters; and tickers of the usual shape to compare with.
TickerChars == {"A", "b", "S", ".", " "}
Tickers == UNION { [1..n -> TickerChars] : n \in 0..MaxTicker }
UsualTickers == { <<"A", "B", ".", "S", "A">>, <<"A", ".", "S", "A">> }

\* main.py:38-39 and 51-52: the symbol and the cache key alpha_quote makes
\* for sym, next to the key it makes for a ticker of the usual shape.
Translate ==
    /\ endpoint = "translate"
    /\ resp = NoResp
    /\ \E sym \in Tickers, other \in UsualTickers :
         /\ req' = [op |-> "to_alpha_symbol", arg |-> sym, other |-> other]
         /\ resp' = [endpoint |-> "translate", status |-> 0,
                     ret |-> to_alpha_symbol(sym),
                     key |-> <<"alpha_quote", to_alpha_symbol(sym)>>,
                     otherKey |-> <<"alpha_quote", to_alpha_symbol(other)>>]
    /\ UNCHANGED <<threads, ALPHA_KEY, endpoint, _cache, now, pc, syms, out, errors, log, asked>>

Next ==
    \/ Tick
    \/ QuoteCall
    \/ QuoteIter
    \/ QuoteReturn
    \/ Chart
    \/ Fundamentals
    \/ Combiner
    \/ CacheGet
    \/ CacheSet
    \/ \E t \in Threads : GetCall(t)
    \/ \E t \in Threads : GetRead(t)
    \/ \E t \in Threads : GetCheck(t)
    \/ \E t \in Threads : GetPop(t)
    \/ \E t \in Threads : SetCall(t)
    \/ \E t \in Threads : SetTime(t)
    \/ \E t \in Threads : SetStore(t)
    \/ Translate

Spec == Init /\ [][Next]_vars

(***************************************************************************)
(* Properties.                                                             *)
(***************************************************************************)
ProviderOrder == <<"alpha", "yfinance", "stooq">>

\* The adapters of the last turn were called in the fixed order, each one
\* only after all before it came back without data.
\* (empty[i] tells whether the i-th adapter called came back without data.)
InOrder(empty) ==
    /\ Len(asked) \in 1..3
    /\ \A i \in 1..Len(asked) : asked[i].provider = ProviderOrder[i]
    /\ \A i \in 1..Len(asked) : i < Len(asked) => empty[i]
    /\ (\A i \in 1..Len(asked) : empty[i]) => Len(asked) = 3

\* The first adapter of the last turn that came back with data.
First(empty) ==
    CHOOSE i \in 1..Len(asked) : ~empty[i] /\ \A j \in 1..(i - 1) : empty[j]

NoPrice(q) == q.price = None
NoItems(l) == l.items = <<>>
Unpriced == [i \in 1..Len(asked) |-> NoPrice(asked[i].val)]
Seriesless == [i \in 1..Len(asked) |-> NoItems(asked[i].val)]

\* A turn of /quote's loop has appended its record.
QuoteTurned == endpoint = "quote" /\ asked # <<>> /\ resp.status # 500

\* C1: in /quote the providers are tried in the order alpha, yfinance, stooq,
\* and when one of them gives a price the record carries the price of the
\* first that does and names it as its source.
C1_FirstPricedProviderWins ==
    QuoteTurned =>
        /\ InOrder(Unpriced)
        /\ (\E i \in 1..Len(asked) : ~NoPrice(asked[i].val)) =>
              /\ out[Len(out)].regularMarketPrice = asked[First(Unpriced)].val.price
              /\ out[Len(out)].source = asked[First(Unpriced)].provider

C1_Witness ==
    /\ QuoteTurned
    /\ Len(asked) = 3
    /\ asked[3].up.kind = "ok"
    /\ asked[3].val.price = Num(0)
    /\ out[Len(out)].source = "stooq"
    /\ out[Len(out)].regularMarketPrice = Num(0)

\* C2, as the specification states it: when no provider gives a price, the
\* record's three numbers are null and its source is null or "stooq", never
\* the name of another provider.
C2_NoPriceSourceNullOrStooq ==
    (QuoteTurned /\ \A i \in 1..Len(asked) : NoPrice(asked[i].val)) =>
        /\ out[Len(out)].regularMarketPrice = None
        /\ out[Len(out)].marketCap = None
        /\ out[Len(out)].sharesOutstanding = None
        /\ out[Len(out)].source \notin {"alpha", "yfinance"}

\* What the code does then: the record keeps the source "alpha".
C2_Witness ==
    /\ QuoteTurned
    /\ Len(asked) = 3
    /\ \A i \in 1..3 : NoPrice(asked[i].val)
    /\ out[Len(out)].regularMarketPrice = None
    /\ out[Len(out)].source = "alpha"

\* The error entries /quote owes for the records rs, in their order.
RECURSIVE ErrorsOf(_)
ErrorsOf(rs) ==
    IF rs = <<>> THEN <<>>
    ELSE (IF rs[1].regularMarketPrice = None
          THEN <<[symbol |-> rs[1].symbol, error |-> "no_data_all_sources"]>> ELSE <<>>)
         \o ErrorsOf(Tail(rs))

\* C3: errors holds an entry for a ticker occurrence exactly when every
\* provider gave a null price for it, the record's price is then null, and
\* the call always answers 200 with {result, errors}.
C3_ErrorsExactlyForUnpriced ==
    endpoint = "quote" =>
        /\ resp.status \in {0, 200}
        /\ errors = ErrorsOf(out)
        /\ QuoteTurned =>
              (out[Len(out)].regularMarketPrice = None
                  <=> \A i \in 1..Len(asked) : NoPrice(asked[i].val))
        /\ resp.status = 200 => resp.result = out /\ resp.errors = errors
        /\ (pc = "idle" /\ req.op = "quote") => resp.status = 200

C3_Witness ==
    /\ endpoint = "quote"
    /\ resp.status = 200
    /\ Len(resp.result) = 2
    /\ resp.result[1].regularMarketPrice # None
    /\ resp.result[2].regularMarketPrice = None
    /\ resp.errors = <<[symbol |-> <<"B">>, error |-> "no_data_all_sources"]>>

ChartAnswered == resp.endpoint = "chart" /\ resp.status # 500

\* C4: /chart tries alpha, yfinance, stooq in this order, and when one of
\* them gives a non-empty series it answers {close, source} with the series
\* of the first that does and its name.
C4_FirstSeriesWins ==
    ChartAnswered =>
        /\ InOrder(Seriesless)
        /\ (\E i \in 1..Len(asked) : ~NoItems(asked[i].val)) =>
              /\ resp.status = 200
              /\ resp.close = asked[First(Seriesless)].val
              /\ resp.source = asked[First(Seriesless)].provider

C4_Witness ==
    /\ ChartAnswered
    /\ Len(asked) = 3
    /\ resp.status = 200
    /\ resp.source = "stooq"
    /\ resp.close = List(<<30, 31>>)

\* C5: /chart answers 502 with {"error":"no_data_all_sources"} exactly when
\* all three providers gave an empty series or failed; a provider's
\* exception never reaches the caller, and the next provider is still tried.
C5_BadGatewayIffAllEmpty ==
    resp.endpoint = "chart" =>
        /\ resp.status \in {200, 502}
        /\ resp.status = 502 <=>
              (Len(asked) = 3 /\ \A i \in 1..3 : NoItems(asked[i].val))
        /\ resp.status = 502 => resp = ChartNoData
        /\ \A i \in 1..Len(asked) :
              asked[i].up.kind \in {"timeout", "status", "badjson", "raise"} =>
                  /\ NoItems(asked[i].val)
                  /\ i < 3 => Len(asked) > i /\ asked[i + 1].provider = ProviderOrder[i + 1]

C5_Witness ==
    /\ resp = ChartNoData
    /\ Len(asked) = 3
    /\ asked[1].up.kind = "badjson"
    /\ asked[2].up.kind = "raise"
    /\ asked[3].up.kind = "timeout"

\* The key of the step's cache call.
K == req'.arg

\* C6: a cache_get(k) after a cache_set(k, v), with no other cache_set(k, ...)
\* between them and with now - storedAt <= 60, the boundary included,
\* returns v and leaves the entry in the cache.
C6_FreshGetReturnsStored ==
    [][/\ CacheSet => _cache'[K] = [val |-> req'.val, ts |-> now]
       /\ (CacheGet /\ K \in DOMAIN _cache /\ now - _cache[K].ts <= CACHE_TTL) =>
             /\ resp'.ret = _cache[K].val
             /\ _cache' = _cache]_vars

C6_Witness ==
    /\ endpoint = "cache"
    /\ req.op = "cache_get"
    /\ req.at = 60
    /\ req.arg \in DOMAIN _cache
    /\ _cache[req.arg].ts = 0
    /\ resp.ret = Quote3(Num(30), None, None)

HasEv(evs, ev, k) == \E i \in 1..Len(evs) : evs[i] = Ev(ev, k[1], k[2])

\* C7: a cache_get(k) with now - storedAt > 60 returns None and deletes the
\* entry; cache_get(k) of a key without entry returns None and leaves it
\* without one, so k stays absent until a cache_set(k, ...); and an entry
\* goes only by an expired lookup of its own key.  (The calls are whole
\* calls, one after the other; C16 is about calls that interleave.)
C7_ExpiredGetEvicts ==
    [][/\ (CacheGet /\ K \in DOMAIN _cache /\ now - _cache[K].ts > CACHE_TTL) =>
             /\ resp'.ret = None
             /\ _cache' = [j \in DOMAIN _cache \ {K} |-> _cache[j]]
       /\ (CacheGet /\ K \notin DOMAIN _cache) => resp'.ret = None /\ _cache' = _cache
       /\ endpoint # "threads" =>
             /\ \A j \in DOMAIN _cache' \ DOMAIN _cache : HasEv(log', "set", j)
             /\ \A j \in DOMAIN _cache \ DOMAIN _cache' :
                   HasEv(log', "get", j) /\ now - _cache[j].ts > CACHE_TTL
       /\ CacheSet => DOMAIN _cache' = DOMAIN _cache \cup {K}]_vars

C7_Witness ==
    /\ endpoint = "cache"
    /\ req.op = "cache_get"
    /\ req.at = 61
    /\ resp.had
    /\ resp.ret = None
    /\ req.arg \notin DOMAIN _cache
    /\ \E j \in DOMAIN _cache : _cache[j].ts = 0

\* The upstream answers that are failures: a timeout or network error, a
\* non-2xx status, a body that is no JSON, a body without the expected
\* field.
Failure(up) ==
    \/ up.kind \in {"timeout", "status", "badjson", "raise"}
    \/ "infoRaises" \in DOMAIN up /\ up.infoRaises
    \/ "gq" \in DOMAIN up /\ (~up.gq \/ up.price = Absent)
    \/ "ts" \in DOMAIN up /\ (~up.ts \/ \E i \in 1..Len(up.rows) : up.rows[i].close = Absent)
    \/ "c" \in DOMAIN up /\ (~up.rows \/ up.c = Absent)
    \/ "closes" \in DOMAIN up /\ up.closes = <<>>
    \/ /\ DOMAIN up = {"kind", "rows"}
       /\ \A i \in 1..Len(up.rows) : up.rows[i].k # "num"
    \/ "js" \in DOMAIN up /\ up.js = NoOverview
    \/ "quarterly" \in DOMAIN up /\ up.quarterly = <<>> /\ up.annual = <<>>

\* An adapter's "no data": a triple without price, an empty series, a
\* mapping whose fields are all absent, no price.
NoData(v) ==
    \/ "price" \in DOMAIN v /\ v.price = None
    \/ v = NoSeries
    \/ v = None
    \/ \A k \in DOMAIN v : v[k] = None

\* C8: whatever failure an adapter meets upstream, it returns its "no data"
\* and does not raise, so no request ends in the framework's 500.
C8_AdaptersSwallowFailures ==
    endpoint \in {"quote", "chart", "fundamentals"} =>
        /\ resp.status # 500
        /\ resp.status \in {0, 200, 502}
        /\ endpoint # "chart" => resp.status # 502
        /\ \A i \in 1..Len(asked) : Failure(asked[i].up) => NoData(asked[i].val)

C8_Witness ==
    /\ resp.endpoint = "fundamentals"
    /\ resp.status = 200
    /\ asked[1].up.kind = "timeout" /\ asked[1].val = EmptyDict
    /\ asked[2].up.kind = "badjson" /\ asked[2].val = NoBalance
    /\ asked[3].up.kind = "status" /\ asked[3].val = None

\* C9, as the specification states it: each multiple is the local ratio when
\* the ratio's inputs are non-null and its denominator is positive, and the
\* provider's ratio when an input is null or the denominator is zero or
\* negative.
Multiple(m, numer, denom, av) ==
    /\ (numer # None /\ denom # None /\ denom.n > 0) => m = FDiv(numer, denom)
    /\ (numer = None \/ denom = None \/ denom.n <= 0) => m = av

C9_MultiplesLocalElseProvider ==
    (resp.endpoint = "fundamentals" /\ resp.status = 200) =>
        /\ Multiple(resp.body.multiples.evEbitda, resp.body.ev, resp.body.ebitdaTTM,
                    get(asked[1].val, "EVToEBITDA"))
        /\ Multiple(resp.body.multiples.pe, resp.body.price, resp.body.epsTTM,
                    get(asked[1].val, "PERatio"))
        /\ Multiple(resp.body.multiples.pb, resp.body.marketCap, resp.body.equityBookValue,
                    get(asked[1].val, "PriceToBookRatio"))

\* What the code does with a negative EPS: pe is the local, negative ratio
\* and not the provider's PERatio.
C9_Witness ==
    /\ resp.endpoint = "fundamentals"
    /\ resp.status = 200
    /\ resp.body.price = Num(10)
    /\ resp.body.epsTTM = Num(-2)
    /\ get(asked[1].val, "PERatio") = Num(5)
    /\ resp.body.multiples.pe = Num(-5)

AlphaAdapters == {"alpha_quote", "alpha_chart", "alpha_overview", "alpha_balance"}
AlphaProviders == {"alpha", "alpha_overview", "alpha_balance_latest", "alpha_price"}

\* C10: without the Alpha key the Alpha adapters return "no data" without a
\* network call and without a cache_get or cache_set, and /quote and /chart
\* go on to the next provider as after a failure.
C10_NoKeyNoCallNoCache ==
    (~ALPHA_KEY /\ endpoint \in {"quote", "chart", "fundamentals"}) =>
        /\ _cache = EmptyDict
        /\ \A i \in 1..Len(log) : log[i].fn \in AlphaAdapters => log[i].ev = "call"
        /\ \A i \in 1..Len(asked) :
              asked[i].provider \in AlphaProviders =>
                  asked[i].up = NoCall /\ NoData(asked[i].val)
        /\ (endpoint \in {"quote", "chart"} /\ asked # <<>>) =>
              /\ \E i \in 1..Len(log) : log[i].fn \in AlphaAdapters
              /\ Len(asked) >= 2
              /\ asked[2].provider = "yfinance"
              /\ asked[2].up # NoCall

C10_Witness ==
    /\ ~ALPHA_KEY
    /\ resp.endpoint = "chart"
    /\ resp.status = 200
    /\ resp.source = "yfinance"
    /\ log[1] = Ev("call", "alpha_chart", <<"A", ".", "S", "A">>)
    /\ asked[1] = [provider |-> "alpha", up |-> NoCall, val |-> NoSeries]

\* The entries of a comma-separated string s, read off the places of its
\* commas: Cut(s, j) is the place of the j-th comma, 0 before the first entry
\* and Len(s) + 1 after the last.
Commas(s) == {i \in 1..Len(s) : s[i] = ","}
Cut(s, j) ==
    IF j = 0 THEN 0
    ELSE IF j > Cardinality(Commas(s)) THEN Len(s) + 1
    ELSE CHOOSE i \in Commas(s) : Cardinality({h \in Commas(s) : h < i}) = j - 1
Entry(s, j) == SubSeq(s, Cut(s, j - 1) + 1, Cut(s, j) - 1)
\* An entry without the blanks around it.
Inked(e) == {i \in 1..Len(e) : e[i] # " "}
Trimmed(e) ==
    IF Inked(e) = {} THEN <<>>
    ELSE SubSeq(e, CHOOSE i \in Inked(e) : \A h \in Inked(e) : i <= h,
                   CHOOSE i \in Inked(e) : \A h \in Inked(e) : i >= h)
\* The places of the non-blank entries of s.
NonBlank(s) == {j \in 1..(Cardinality(Commas(s)) + 1) : Inked(Entry(s, j)) # {}}
\* The number of non-blank entries among the first j.
Rank(s, j) == Cardinality({h \in NonBlank(s) : h <= j})

\* C11: /quote gives one record per non-blank entry of symbols, in the order
\* of the input, with the trimmed entry as its symbol; a blank entry gives
\* no record and no error entry, a repeated ticker a record each time.
C11_OneRecordPerNonBlankEntry ==
    (endpoint = "quote" /\ req.op = "quote") =>
        /\ Len(out) <= Cardinality(NonBlank(req.arg))
        /\ \A j \in NonBlank(req.arg) :
              Rank(req.arg, j) <= Len(out) =>
                  out[Rank(req.arg, j)].symbol = Trimmed(Entry(req.arg, j))
        /\ \A i \in 1..Len(errors) : \E j \in NonBlank(req.arg) :
              errors[i].symbol = Trimmed(Entry(req.arg, j))
        /\ Len(errors) <= Len(out)
        /\ resp.status = 200 =>
              /\ Len(resp.result) = Cardinality(NonBlank(req.arg))
              /\ resp.result = out

C11_Witness ==
    /\ endpoint = "quote"
    /\ resp.status = 200
    /\ req.arg = <<"a", ".", "s", "a", ",", " ", ",", "B">>
    /\ Len(resp.result) = 2
    /\ resp.result[1].symbol = <<"a", ".", "s", "a">>
    /\ resp.result[2].symbol = <<"B">>

\* z = x + y and z = x - y on floats, by cross-multiplication.
IsSum(z, x, y) == z.n * x.d * y.d = (x.n * y.d + y.n * x.d) * z.d
IsDifference(z, x, y) == z.n * x.d * y.d = (x.n * y.d - y.n * x.d) * z.d

\* C12: in /fundamentals netDebt is totalDebt - cash and ev is
\* marketCap + netDebt, each null exactly when one of its two inputs is
\* null; so a null totalDebt makes netDebt and ev null.
C12_NetDebtAndEvPropagateNull ==
    (resp.endpoint = "fundamentals" /\ resp.status = 200) =>
        /\ resp.body.totalDebt = get(asked[2].val, "TotalDebt")
        /\ resp.body.cash = get(asked[2].val, "Cash")
        /\ resp.body.marketCap = get(asked[1].val, "MarketCapitalization")
        /\ resp.body.netDebt = None <=>
              (resp.body.totalDebt = None \/ resp.body.cash = None)
        /\ resp.body.netDebt # None =>
              IsDifference(resp.body.netDebt, resp.body.totalDebt, resp.body.cash)
        /\ resp.body.ev = None <=>
              (resp.body.marketCap = None \/ resp.body.netDebt = None)
        /\ resp.body.ev # None =>
              IsSum(resp.body.ev, resp.body.marketCap, resp.body.netDebt)
        /\ resp.body.totalDebt = None => resp.body.netDebt = None /\ resp.body.ev = None

C12_Witness ==
    /\ resp.endpoint = "fundamentals"
    /\ resp.status = 200
    /\ resp.body.totalDebt = None
    /\ resp.body.cash = Num(2)
    /\ resp.body.marketCap = Num(12)
    /\ resp.body.netDebt = None
    /\ resp.body.ev = None

IsCall(e) == e.ev = "call"
IsHttp(e) == e.ev = "http"
Calls == SelectSeq(log, IsCall)
Https == SelectSeq(log, IsHttp)
QuoteFns == <<"alpha_quote", "yf_quote", "stooq_quote">>
ChartFns == <<"alpha_chart", "yf_history", "stooq_chart">>

\* The adapters fns were entered for arg one after the other, none twice,
\* each only after all before it came back without data, and none sent more
\* than one upstream request.
OncePerProvider(fns, empty, arg) ==
    /\ Len(Calls) \in 1..3
    /\ Len(Calls) = Len(asked)
    /\ \A i \in 1..Len(Calls) : Calls[i].fn = fns[i] /\ Calls[i].arg = arg
    /\ \A i \in 1..Len(Calls) : i < Len(Calls) => empty[i]
    /\ \A i \in 1..Len(Calls) : ~empty[i] => i = Len(Calls)
    /\ \A i, j \in 1..Len(Https) : Https[i].fn = Https[j].fn => i = j
    /\ \A i \in 1..Len(Https) : \E j \in 1..Len(Calls) : Https[i].fn = Calls[j].fn

\* C13: within one /quote turn for a ticker, and within one /chart request,
\* each provider's adapter is invoked at most once, a provider only after
\* every earlier one returned no data, and none after one returned data.
C13_EachProviderAtMostOnce ==
    /\ QuoteTurned => OncePerProvider(QuoteFns, Unpriced, out[Len(out)].symbol)
    /\ ChartAnswered => OncePerProvider(ChartFns, Seriesless, req.arg)

C13_Witness ==
    /\ QuoteTurned
    /\ Len(Calls) = 2
    /\ Calls[1].fn = "alpha_quote"
    /\ Calls[2].fn = "yf_quote"
    /\ asked[1].up.kind # "ok"
    /\ asked[1].up # NoCall
    /\ asked[2].val.price # None
    /\ out[Len(out)].source = "yfinance"

\* The step calls adapters: a turn of /quote's loop, /chart or /fundamentals.
AdapterStep ==
    /\ now' = now
    /\ \/ endpoint \in {"chart", "fundamentals"}
       \/ endpoint = "quote" /\ pc = "quote" /\ syms # <<>>

\* The place in `asked` of what adapter fn handed back.
Slot(fn) ==
    IF endpoint # "fundamentals" THEN 1
    ELSE IF fn = "alpha_overview" THEN 1 ELSE IF fn = "alpha_balance" THEN 2 ELSE 3

\* The caller of adapter fn got the stored result: alpha_price keeps the
\* price of alpha_quote's triple.
GotStored(fn, val, stored) ==
    IF endpoint = "fundamentals" /\ fn = "alpha_quote" THEN val = stored.price
    ELSE val = stored

HttpsOf(evs, k) == {i \in 1..Len(evs) : evs[i] = Ev("http", k[1], k[2])}
KeyOf(e) == <<e.fn, to_alpha_symbol(e.arg)>>

\* What a call of an Alpha adapter with key k owes to the entry stored under
\* k before the step.
StoredServes(k) ==
    IF now - _cache[k].ts <= CACHE_TTL
    THEN /\ HttpsOf(log', k) = {}
         /\ GotStored(k[1], asked'[Slot(k[1])].val, _cache[k].val)
         /\ asked'[Slot(k[1])].up = NoCall
         /\ k \in DOMAIN _cache'
         /\ _cache'[k] = _cache[k]
    ELSE Cardinality(HttpsOf(log', k)) = 1

\* C14: once an Alpha adapter stored a result under (operation, translated
\* symbol), a call of the same adapter for a ticker with the same translated
\* symbol within the 60 s sends no upstream request and returns the stored
\* result; the first call after the 60 s sends exactly one.
C14_StoredResultServedWithinTTL ==
    [][AdapterStep =>
          \A i \in 1..Len(log') :
              (log'[i].ev = "call" /\ log'[i].fn \in AlphaAdapters
                  /\ KeyOf(log'[i]) \in DOMAIN _cache)
                  => StoredServes(KeyOf(log'[i]))]_vars

C14_Witness ==
    /\ QuoteTurned
    /\ now = CACHE_TTL
    /\ <<"alpha_quote", <<"A", ".", "S", "A", "O">> >> \in DOMAIN _cache
    /\ _cache[<<"alpha_quote", <<"A", ".", "S", "A", "O">> >>].ts = 0
    /\ log = << Ev("call", "alpha_quote", <<"a", ".", "s", "a">>),
                Ev("get", "alpha_quote", <<"A", ".", "S", "A", "O">>) >>
    /\ asked[1].up = NoCall
    /\ out[Len(out)].regularMarketPrice = Num(30)

\* C15: the price, the shares and the market cap of a /quote record are
\* those of the one provider named in its source; what a provider without a
\* price gave is dropped, and what the named provider did not give is null.
C15_RecordFromOneProvider ==
    QuoteTurned =>
        \E i \in 1..Len(asked) :
            /\ asked[i].provider = out[Len(out)].source
            /\ out[Len(out)].regularMarketPrice = asked[i].val.price
            /\ out[Len(out)].sharesOutstanding = asked[i].val.shares
            /\ out[Len(out)].marketCap = asked[i].val.mcap

C15_Witness ==
    /\ QuoteTurned
    /\ Len(asked) = 3
    /\ asked[1].val = NoQuote
    /\ asked[2].val = Quote3(None, Num(5), None)
    /\ asked[3].val = Quote3(Num(0), None, None)
    /\ out[Len(out)].source = "stooq"
    /\ out[Len(out)].regularMarketPrice = Num(0)
    /\ out[Len(out)].sharesOutstanding = None
    /\ out[Len(out)].marketCap = None
    /\ errors = <<>>

\* C16: whatever the interleaving of threads in cache_get and cache_set on
\* one key, an entry within its TTL is never deleted: the entry cache_get
\* removes is the expired one it examined.
C16_FreshEntryNeverDeleted ==
    \A t \in Threads :
        threads[t].gone # None =>
            /\ threads[t].gone = threads[t].v
            /\ threads[t].at - threads[t].gone.ts > CACHE_TTL

\* What the code does: between the test of line 27 and the pop of line 28
\* another thread stored a new entry under the key, and the pop removed it.
C16_Witness ==
    \E t \in Threads :
        /\ threads[t].pc = "idle"
        /\ threads[t].gone # None
        /\ threads[t].v # None
        /\ threads[t].gone # threads[t].v
        /\ threads[t].at - threads[t].v.ts > CACHE_TTL
        /\ threads[t].at - threads[t].gone.ts <= CACHE_TTL
        /\ threads[t].k \notin DOMAIN _cache

\* The upstream failures of an Alpha call: a timeout or network error, a
\* non-2xx status, a body that is no JSON, and a body without the field the
\* adapter reads ("Global Quote", "Time Series (Daily)", the reports), as a
\* rate-limit notice is.
UpstreamFailure(up) ==
    \/ up.kind \in HttpFailures
    \/ "gq" \in DOMAIN up /\ ~up.gq
    \/ "ts" \in DOMAIN up /\ ~up.ts
    \/ "quarterly" \in DOMAIN up /\ up.quarterly = <<>> /\ up.annual = <<>>

\* The adapter behind an entry of `asked`, as the events name it.
AdapterOf(provider) ==
    IF provider = "alpha" THEN (IF endpoint = "chart" THEN "alpha_chart" ELSE "alpha_quote")
    ELSE IF provider = "alpha_overview" THEN "alpha_overview"
    ELSE IF provider = "alpha_balance_latest" THEN "alpha_balance"
    ELSE "alpha_quote"

Wrote(fn) == \E j \in 1..Len(log) : log[j].ev = "set" /\ log[j].fn = fn

\* C17: an Alpha adapter call that ends with "no data" because of an upstream
\* failure writes nothing to the cache, so that the next call for the key
\* within the 60 s goes upstream again.
C17_FailureNeverCached ==
    endpoint \in {"quote", "chart", "fundamentals"} =>
        \A i \in 1..Len(asked) :
            (/\ asked[i].provider \in AlphaProviders
             /\ UpstreamFailure(asked[i].up)
             /\ NoData(asked[i].val))
                => ~Wrote(AdapterOf(asked[i].provider))

\* What the code does with a body without "Global Quote": it stores the
\* triple of nulls.
C17_Witness ==
    /\ QuoteTurned
    /\ asked[1].up = [kind |-> "ok", gq |-> FALSE, price |-> Absent]
    /\ asked[1].val = NoQuote
    /\ log[4] = Ev("set", "alpha_quote", <<"A", ".", "S", "A", "O">>)
    /\ _cache[<<"alpha_quote", <<"A", ".", "S", "A", "O">> >>] = [val |-> NoQuote, ts |-> now]

\* The trimmed, upper-cased ticker without its trailing ".SA".
EndsWith(s, p) == Len(p) <= Len(s) /\ SubSeq(s, Len(s) - Len(p) + 1, Len(s)) = p
Stem(t) ==
    IF EndsWith(upper(Trimmed(t)), <<".", "S", "A">>)
    THEN SubSeq(upper(Trimmed(t)), 1, Len(Trimmed(t)) - 3)
    ELSE upper(Trimmed(t))

\* C18: to_alpha_symbol returns the trimmed, upper-cased ticker with only its
\* trailing ".SA" removed, followed by ".SAO"; so two tickers that differ
\* before the suffix never get the same Alpha symbol or the same cache key.
C18_OnlyTrailingSuffixRemoved ==
    resp.endpoint = "translate" =>
        /\ resp.ret = Stem(req.arg) \o <<".", "S", "A", "O">>
        /\ Stem(req.arg) # Stem(req.other) => resp.key # resp.otherKey

\* What the code does: it removes every ".SA" of the ticker, so "A.SAb" gets
\* the symbol and the cache key of "AB.SA".
C18_Witness ==
    /\ resp.endpoint = "translate"
    /\ req.arg = <<"A", ".", "S", "A", "b">>
    /\ req.other = <<"A", "B", ".", "S", "A">>
    /\ resp.ret = <<"A", "B", ".", "S", "A", "O">>
    /\ resp.key = resp.otherKey

====
